---- MODULE Spec2Model ----
(***************************************************************************)
(* Reaction-notification engine of bsky-spoiler-telegram-bot (main.go).    *)
(*                                                                         *)
(* handleMessageReaction runs once per reaction update, each run in its    *)
(* own goroutine; its calls to the store and to the Bot API are the atomic *)
(* steps here.  The cleanup goroutine started on a full removal sleeps for *)
(* the grace window and then re-reads the store, deletes, and resets.      *)
(***************************************************************************)
EXTENDS Integers, Sequences, FiniteSets, Bags, TLC

VARIABLES
    store,      \* gdstore: key -> marshalled payload (domain = keys present)
    dms,        \* notification DMs ever sent: message id -> [owner, text, exists]
    handlers,   \* bag of handleMessageReaction invocations in flight
    timers,     \* set of cleanup goroutines in flight
    armed,      \* keys of the cleanup goroutines started so far, in start order
    clock,      \* time.Now().Unix()
    ticks,      \* number of one-second clock advances so far
    delivered,  \* number of reaction updates delivered so far
    last,       \* the step just taken: [op, h, t] (h, t: 0- or 1-element)
    prev        \* the last completed handler run and what it left in the store

vars == <<store, dms, handlers, timers, armed, clock, ticks, delivered, last, prev>>

----------------------------------------------------------------------------
(* Bounds *)
MaxEvents  == 3     \* reaction updates delivered
MaxActive  == 2     \* reaction handlers in flight at the same time
MaxTicks   == 2     \* one-second clock advances
LiveEvents == 4     \* reaction updates delivered in LiveSpec
RaceEvents == 4     \* reaction updates delivered in RaceSpec
RenderEvents == 2   \* reaction updates delivered in RenderSpec
RenderMaxLen == 2   \* reactions in one reaction set in RenderSpec
NameEvents == 2     \* reaction updates delivered in NameSpec
StrictEvents == 4   \* reaction updates delivered in StrictSpec

(* Program constants *)
GraceSeconds == 30  \* time.Sleep(30 * time.Second)
StartEpoch   == 1   \* first value of time.Now().Unix(); never 0

----------------------------------------------------------------------------
(* Inputs *)
Users      == {101}
GroupChat  == [ID |-> -1001, Type |-> "supergroup", Title |-> "g"]
PrivChat   == [ID |-> 101,   Type |-> "private",    Title |-> ""]
Chats      == {GroupChat, PrivChat}
MessageIDs == {1}

Thumb  == [Type |-> "emoji", Emoji |-> "U+1F44D"]
Custom == [Type |-> "custom_emoji", Emoji |-> ""]

ReactionLists == {<<>>, <<Thumb>>, <<Thumb, Custom>>}

Nil == <<>>
Some(x) == <<x>>

\* The reacting user (reaction.User) of the updates of Reactions.
Alice == [Username |-> "alice", FirstName |-> "Alice"]

\* A message_reaction update reports a change: the two lists differ.
Reactions ==
    {r \in [Chat : Chats, MessageID : MessageIDs,
            OldReaction : ReactionLists, NewReaction : ReactionLists,
            User : {Some(Alice)}, ActorChat : {Nil}] :
        r.OldReaction # r.NewReaction}

----------------------------------------------------------------------------
(* Store keys and payloads *)

MetadataKey(chatID, messageID) == <<chatID, messageID>>

\* Variant: the notification state is filed under the registry's key.
NotificationKey_SharesRegistryKey(userID, chatID, messageID) ==
    <<chatID, messageID>>

NotificationKey(userID, chatID, messageID) ==
    <<"notification", userID, chatID, messageID>>

MarshalMetadata(m) == <<m.UserID, m.ChatID, m.MessageID>>

UnmarshalMetadata(d) ==
    [UserID |-> d[1], ChatID |-> d[2], MessageID |-> d[3]]

MarshalNotification(m) ==
    <<m.NotificationMsgID, m.RemovedAt, m.RemovedEmojis>>

UnmarshalNotification(d) ==
    [NotificationMsgID |-> d[1], RemovedAt |-> d[2], RemovedEmojis |-> d[3]]

Put(s, key, data) == (key :> data) @@ s

getMessageMetadata(s, chatID, messageID) ==
    LET key == MetadataKey(chatID, messageID)
    IN  IF key \notin DOMAIN s THEN Nil ELSE Some(UnmarshalMetadata(s[key]))

getNotificationMetadata(s, userID, chatID, messageID) ==
    LET key == NotificationKey(userID, chatID, messageID)
    IN  IF key \notin DOMAIN s THEN Nil ELSE Some(UnmarshalNotification(s[key]))

storeMessageMetadata(s, chatID, messageID, userID) ==
    Put(s, MetadataKey(chatID, messageID),
        MarshalMetadata([UserID |-> userID, ChatID |-> chatID,
                         MessageID |-> messageID]))

storeNotificationMetadata(s, userID, chatID, messageID, meta) ==
    Put(s, NotificationKey(userID, chatID, messageID),
        MarshalNotification(meta))

EmptyNotification ==
    [NotificationMsgID |-> 0, RemovedAt |-> 0, RemovedEmojis |-> <<>>]

----------------------------------------------------------------------------
(* Pure parts of handleMessageReaction *)

\* Variant: the chat type is never looked at.
IsPrivate_Never(chat) == FALSE

IsPrivate(chat) == chat.Type = "private"

RECURSIVE ExtractEmojis(_)
ExtractEmojis(rs) ==
    IF rs = <<>> THEN <<>>
    ELSE LET r == Head(rs)
             rest == ExtractEmojis(Tail(rs))
         IN  IF r.Type = "emoji" THEN <<r.Emoji>> \o rest
             ELSE IF r.Type = "custom_emoji" THEN <<"[custom]">> \o rest
             ELSE rest

RECURSIVE Join(_, _)
Join(elems, sep) ==
    IF elems = <<>> THEN ""
    ELSE IF Len(elems) = 1 THEN elems[1]
    ELSE elems[1] \o sep \o Join(Tail(elems), sep)

\* Lines 382-394.
ReactorName(reaction) ==
    IF reaction.User # Nil
    THEN IF reaction.User[1].Username # ""
         THEN "@" \o reaction.User[1].Username
         ELSE reaction.User[1].FirstName
    ELSE IF reaction.ActorChat # Nil
    THEN reaction.ActorChat[1].Title
    ELSE "Anonymous"

RemovedText(reaction) ==
    [removed |-> TRUE, name |-> ReactorName(reaction),
     emojiStr |-> Join(ExtractEmojis(reaction.OldReaction), " ")]

ActiveText(reaction) ==
    [removed |-> FALSE, name |-> ReactorName(reaction),
     emojiStr |-> Join(ExtractEmojis(reaction.NewReaction), " ")]

IsFullRemoval(reaction) == Len(reaction.NewReaction) = 0

\* Variant: any stored state counts as a live notification.
HasNotification_AnyState(meta) == meta # Nil

HasNotification(meta) == meta # Nil /\ meta[1].NotificationMsgID # 0

\* Variant: the removal time is not recorded.
RemovedMeta_KeepsTimestamp(meta, now, oldEmojis) ==
    [NotificationMsgID |-> meta.NotificationMsgID,
     RemovedAt |-> meta.RemovedAt, RemovedEmojis |-> oldEmojis]

\* Variant: the removed emojis pile up instead of being replaced.
RemovedMeta_AppendsEmojis(meta, now, oldEmojis) ==
    [NotificationMsgID |-> meta.NotificationMsgID,
     RemovedAt |-> now, RemovedEmojis |-> meta.RemovedEmojis \o oldEmojis]

RemovedMeta(meta, now, oldEmojis) ==
    [NotificationMsgID |-> meta.NotificationMsgID,
     RemovedAt |-> now, RemovedEmojis |-> oldEmojis]

NewNotificationMeta(newMessageID) ==
    [NotificationMsgID |-> newMessageID, RemovedAt |-> 0, RemovedEmojis |-> <<>>]

NeedsSend(newMessageID) == newMessageID = 0

\* Variant: any removed state counts, whatever its timestamp.
FenceMatches_IgnoresToken(currentMeta, fence) ==
    /\ currentMeta # Nil
    /\ currentMeta[1].RemovedAt # 0

FenceMatches(currentMeta, fence) ==
    /\ currentMeta # Nil
    /\ currentMeta[1].RemovedAt = fence
    /\ currentMeta[1].RemovedAt # 0

----------------------------------------------------------------------------
(* Bot API *)

MessageExists(d, chatID, messageID) ==
    /\ messageID \in 1..Len(d)
    /\ d[messageID].owner = chatID
    /\ d[messageID].exists

EditMessageText(d, chatID, messageID, text) ==
    [d EXCEPT ![messageID].text = text]

SendMessage(d, chatID, text) ==
    Append(d, [owner |-> chatID, text |-> text, exists |-> TRUE])

NoText == [removed |-> FALSE, name |-> "", emojiStr |-> ""]

DeleteMessage(d, chatID, messageID) ==
    [d EXCEPT ![messageID].exists = FALSE, ![messageID].text = NoText]

----------------------------------------------------------------------------
(* handleMessageReaction *)

NewHandler(reaction, metadata, notificationMeta, pc) ==
    [reaction |-> reaction, metadata |-> metadata,
     notificationMeta |-> notificationMeta, pc |-> pc,
     newMessageID |-> 0, calls |-> <<>>]

\* Lines 369-414 and 497-517: the early returns and the first call to make.
Dispatch(s, reaction) ==
    LET metadata == getMessageMetadata(s, reaction.Chat.ID, reaction.MessageID)
    IN  IF IsPrivate(reaction.Chat) \/ metadata = Nil
        THEN NewHandler(reaction, Nil, Nil, "done")
        ELSE LET nm == getNotificationMetadata(s, metadata[1].UserID,
                            reaction.Chat.ID, reaction.MessageID)
             IN  IF IsFullRemoval(reaction)
                 THEN NewHandler(reaction, metadata, nm,
                        IF HasNotification(nm) THEN "editRemoved" ELSE "done")
                 ELSE NewHandler(reaction, metadata, nm,
                        IF HasNotification(nm) THEN "editActive"
                        ELSE IF NeedsSend(0) THEN "send" ELSE "storeActive")

\* Variant: the edit's outcome is not used, a new message is always sent.
AfterEditActive_AlwaysSends(h, ok) == [h EXCEPT !.pc = "send"]

\* Variant: the edit's error is ignored, the old message id is kept.
AfterEditActive_IgnoresError(h, ok) ==
    [h EXCEPT !.newMessageID = h.notificationMeta[1].NotificationMsgID,
              !.pc = "storeActive"]

\* Lines 507-517: what follows the edit of a live notification.
AfterEditActive(h, ok) ==
    LET id == IF ok THEN h.notificationMeta[1].NotificationMsgID
              ELSE h.newMessageID
    IN  [h EXCEPT !.newMessageID = id,
                  !.pc = IF NeedsSend(id) THEN "send" ELSE "storeActive"]

\* Variant: the id of the sent message is not kept.
AfterSend_DropsID(h, ok, sentID) ==
    [h EXCEPT !.pc = IF ok THEN "storeActive" ELSE "done"]

\* Variant: a failed send is not a reason to return.
AfterSend_StoresOnError(h, ok, sentID) ==
    [h EXCEPT !.newMessageID = IF ok THEN sentID ELSE 0, !.pc = "storeActive"]

\* Lines 524-529: what follows sendMessage.
AfterSend(h, ok, sentID) ==
    IF ok THEN [h EXCEPT !.newMessageID = sentID, !.pc = "storeActive"]
    ELSE [h EXCEPT !.pc = "done"]

\* Lines 447-453: the goroutine captures the key and notificationMeta.
NewTimer(h, n, now) ==
    [seq |-> n, userID |-> h.metadata[1].UserID,
     chatID |-> h.reaction.Chat.ID, messageID |-> h.reaction.MessageID,
     fence |-> h.notificationMeta[1].RemovedAt, wake |-> now + GraceSeconds,
     pc |-> "sleep", currentMeta |-> Nil, calls |-> <<>>]

Call(api, messageID, ok) == [api |-> api, messageID |-> messageID, ok |-> ok]

Replace(h, h2) ==
    IF h2.pc = "done" THEN handlers (-) SetToBag({h})
    ELSE (handlers (-) SetToBag({h})) (+) SetToBag({h2})

----------------------------------------------------------------------------
(* Observation of the step just taken and of the last completed run *)

HandlerStep(op, h2) == [op |-> op, h |-> Some(h2), t |-> Nil]
TimerStep(op, t2)   == [op |-> op, h |-> Nil, t |-> Some(t2)]
OtherStep(op)       == [op |-> op, h |-> Nil, t |-> Nil]

\* What the store holds for the key a handler works on.
StoredFor(h, s) ==
    IF h.metadata = Nil THEN Nil
    ELSE getNotificationMetadata(s, h.metadata[1].UserID,
                                 h.reaction.Chat.ID, h.reaction.MessageID)

PrevOff == [on |-> FALSE, valid |-> FALSE, run |-> Nil, repeat |-> Nil]
PrevOn  == [on |-> TRUE,  valid |-> FALSE, run |-> Nil, repeat |-> Nil]

\* prev.run is the last completed run; prev.repeat is the run before it when
\* the last run handled the same update and nothing but the passing of time
\* came between the two; prev.valid says nothing has intervened since.
PrevAfterHandler(h2, s2, hs2) ==
    IF ~prev.on THEN prev
    ELSE IF h2.pc = "done"
    THEN [on |-> TRUE,
          valid |-> hs2 = EmptyBag,
          run |-> Some([h |-> h2, after |-> StoredFor(h2, s2), at |-> clock]),
          repeat |-> IF prev.valid /\ prev.run # Nil
                        /\ prev.run[1].h.reaction = h2.reaction
                     THEN prev.run ELSE Nil]
    ELSE [prev EXCEPT !.valid = @ /\ BagCardinality(hs2) = 1]

PrevAfterOther == IF prev.on THEN [prev EXCEPT !.valid = FALSE] ELSE prev

----------------------------------------------------------------------------
(* Steps of handleMessageReaction *)

ReceiveOf(updates, maxEvents, maxActive) ==
    \E reaction \in updates :
        /\ BagCardinality(handlers) < maxActive
        /\ delivered < maxEvents
        /\ delivered' = delivered + 1
        /\ LET h == Dispatch(store, reaction)
               hs2 == IF h.pc = "done" THEN handlers
                      ELSE handlers (+) SetToBag({h})
           IN  /\ handlers' = hs2
               /\ last' = HandlerStep("Receive", h)
               /\ prev' = PrevAfterHandler(h, store, hs2)
        /\ UNCHANGED <<store, dms, timers, armed, clock, ticks>>

Receive == ReceiveOf(Reactions, MaxEvents, MaxActive)

EditRemoved ==
    \E h \in BagToSet(handlers), ok \in BOOLEAN :
        /\ h.pc = "editRemoved"
        /\ LET owner == h.metadata[1].UserID
               id == h.notificationMeta[1].NotificationMsgID
               h2 == [h EXCEPT !.pc = "storeRemoved",
                               !.calls = Append(@, Call("edit", id, ok))]
           IN  /\ ok => MessageExists(dms, owner, id)
               /\ dms' = IF ok THEN EditMessageText(dms, owner, id,
                                                    RemovedText(h.reaction))
                         ELSE dms
               /\ handlers' = Replace(h, h2)
               /\ last' = HandlerStep("EditRemoved", h2)
               /\ prev' = PrevAfterHandler(h2, store, Replace(h, h2))
        /\ UNCHANGED <<store, timers, armed, clock, ticks, delivered>>

StoreRemoved ==
    \E h \in BagToSet(handlers) :
        /\ h.pc = "storeRemoved"
        /\ LET nm == RemovedMeta(h.notificationMeta[1], clock,
                                 ExtractEmojis(h.reaction.OldReaction))
               h2 == [h EXCEPT !.pc = "done", !.notificationMeta = Some(nm)]
               s2 == storeNotificationMetadata(store, h.metadata[1].UserID,
                         h.reaction.Chat.ID, h.reaction.MessageID, nm)
           IN  /\ store' = s2
               /\ timers' = timers \cup {NewTimer(h2, Len(armed) + 1, clock)}
               /\ armed' = Append(armed, NotificationKey(h.metadata[1].UserID,
                                    h.reaction.Chat.ID, h.reaction.MessageID))
               /\ handlers' = Replace(h, h2)
               /\ last' = HandlerStep("StoreRemoved", h2)
               /\ prev' = PrevAfterHandler(h2, s2, Replace(h, h2))
        /\ UNCHANGED <<dms, clock, ticks, delivered>>

EditActive ==
    \E h \in BagToSet(handlers), ok \in BOOLEAN :
        /\ h.pc = "editActive"
        /\ LET owner == h.metadata[1].UserID
               id == h.notificationMeta[1].NotificationMsgID
               h1 == [h EXCEPT !.calls = Append(@, Call("edit", id, ok))]
               h2 == AfterEditActive(h1, ok)
           IN  /\ ok => MessageExists(dms, owner, id)
               /\ dms' = IF ok THEN EditMessageText(dms, owner, id,
                                                    ActiveText(h.reaction))
                         ELSE dms
               /\ handlers' = Replace(h, h2)
               /\ last' = HandlerStep("EditActive", h2)
               /\ prev' = PrevAfterHandler(h2, store, Replace(h, h2))
        /\ UNCHANGED <<store, timers, armed, clock, ticks, delivered>>

Send ==
    \E h \in BagToSet(handlers), ok \in BOOLEAN :
        /\ h.pc = "send"
        /\ LET owner == h.metadata[1].UserID
               sentID == Len(dms) + 1
               h1 == [h EXCEPT !.calls =
                        Append(@, Call("send", IF ok THEN sentID ELSE 0, ok))]
               h2 == AfterSend(h1, ok, sentID)
           IN  /\ dms' = IF ok THEN SendMessage(dms, owner, ActiveText(h.reaction))
                         ELSE dms
               /\ handlers' = Replace(h, h2)
               /\ last' = HandlerStep("Send", h2)
               /\ prev' = PrevAfterHandler(h2, store, Replace(h, h2))
        /\ UNCHANGED <<store, timers, armed, clock, ticks, delivered>>

StoreActive ==
    \E h \in BagToSet(handlers) :
        /\ h.pc = "storeActive"
        /\ LET h2 == [h EXCEPT !.pc = "done"]
               s2 == storeNotificationMetadata(store, h.metadata[1].UserID,
                         h.reaction.Chat.ID, h.reaction.MessageID,
                         NewNotificationMeta(h.newMessageID))
           IN  /\ store' = s2
               /\ handlers' = Replace(h, h2)
               /\ last' = HandlerStep("StoreActive", h2)
               /\ prev' = PrevAfterHandler(h2, s2, Replace(h, h2))
        /\ UNCHANGED <<dms, timers, armed, clock, ticks, delivered>>

----------------------------------------------------------------------------
(* The cleanup goroutine, lines 453-470 *)

TimerExpire ==
    \E t \in timers :
        /\ t.pc = "sleep"
        /\ clock >= t.wake
        /\ LET cur == getNotificationMetadata(store, t.userID, t.chatID, t.messageID)
               t2 == IF FenceMatches(cur, t.fence)
                     THEN [t EXCEPT !.pc = "delete", !.currentMeta = cur]
                     ELSE [t EXCEPT !.pc = "done", !.currentMeta = cur]
           IN  /\ timers' = IF t2.pc = "done" THEN timers \ {t}
                            ELSE (timers \ {t}) \cup {t2}
               /\ last' = TimerStep("TimerExpire", t2)
        /\ prev' = PrevAfterOther
        /\ UNCHANGED <<store, dms, handlers, armed, clock, ticks, delivered>>

\* Variant: a failed delete ends the goroutine.
AfterDelete_ReturnsOnError(t, ok) ==
    [t EXCEPT !.pc = IF ok THEN "clear" ELSE "done"]

\* Lines 464-467: the error is logged, the goroutine goes on.
AfterDelete(t, ok) == [t EXCEPT !.pc = "clear"]

TimerDelete ==
    \E t \in timers, ok \in BOOLEAN :
        /\ t.pc = "delete"
        /\ LET id == t.currentMeta[1].NotificationMsgID
               t1 == [t EXCEPT !.calls = Append(@, Call("delete", id, ok))]
               t2 == AfterDelete(t1, ok)
           IN  /\ ok => MessageExists(dms, t.userID, id)
               /\ dms' = IF ok THEN DeleteMessage(dms, t.userID, id) ELSE dms
               /\ timers' = IF t2.pc = "done" THEN timers \ {t}
                            ELSE (timers \ {t}) \cup {t2}
               /\ last' = TimerStep("TimerDelete", t2)
        /\ prev' = PrevAfterOther
        /\ UNCHANGED <<store, handlers, armed, clock, ticks, delivered>>

TimerClear ==
    \E t \in timers :
        /\ t.pc = "clear"
        /\ LET t2 == [t EXCEPT !.pc = "done"]
           IN  /\ store' = storeNotificationMetadata(store, t.userID, t.chatID,
                               t.messageID, EmptyNotification)
               /\ timers' = timers \ {t}
               /\ last' = TimerStep("TimerClear", t2)
        /\ prev' = PrevAfterOther
        /\ UNCHANGED <<dms, handlers, armed, clock, ticks, delivered>>

----------------------------------------------------------------------------
(* Environment *)

\* handleSpoilerCommand records the owner of each spoiler message it sent;
\* Telegram gives every message of a chat a fresh id, and in a private chat
\* the sender is the chat.
RecordSpoiler ==
    \E chat \in Chats, messageID \in MessageIDs, userID \in Users :
        /\ MetadataKey(chat.ID, messageID) \notin DOMAIN store
        /\ IsPrivate(chat) => userID = chat.ID
        /\ store' = storeMessageMetadata(store, chat.ID, messageID, userID)
        /\ last' = OtherStep("RecordSpoiler")
        /\ prev' = PrevAfterOther
        /\ UNCHANGED <<dms, handlers, timers, armed, clock, ticks, delivered>>

\* One second passes.
Tick ==
    /\ ticks < MaxTicks
    /\ clock' = clock + 1
    /\ ticks' = ticks + 1
    /\ last' = OtherStep("Tick")
    /\ UNCHANGED <<store, dms, handlers, timers, armed, delivered, prev>>

\* Time passes until the grace window of a sleeping cleanup goroutine ends.
Elapse ==
    \E t \in timers :
        /\ t.pc = "sleep"
        /\ t.wake > clock
        /\ clock' = t.wake
        /\ last' = OtherStep("Elapse")
        /\ UNCHANGED <<store, dms, handlers, timers, armed, ticks, delivered, prev>>

\* Variant: every process starts on a store of its own.
OpenStore_Fresh(persisted) == <<>>

\* main, line 43: gdstore.New opens the file of that fixed name and loads
\* every entry written to it so far.
OpenStore(persisted) == [key \in DOMAIN persisted |-> persisted[key]]

\* The process ends (lines 67-68, or a crash) and is started again: the
\* handlers and cleanup goroutines in flight are gone, the store is reopened.
Restart ==
    /\ store' = OpenStore(store)
    /\ handlers' = EmptyBag
    /\ timers' = {}
    /\ last' = OtherStep("Restart")
    /\ prev' = PrevAfterOther
    /\ UNCHANGED <<dms, armed, clock, ticks, delivered>>

----------------------------------------------------------------------------
InitWith(p) ==
    /\ store = <<>>
    /\ dms = <<>>
    /\ handlers = EmptyBag
    /\ timers = {}
    /\ armed = <<>>
    /\ clock = StartEpoch
    /\ ticks = 0
    /\ delivered = 0
    /\ last = OtherStep("Init")
    /\ prev = p

Init == InitWith(PrevOff)

Next ==
    \/ Receive
    \/ EditRemoved
    \/ StoreRemoved
    \/ EditActive
    \/ Send
    \/ StoreActive
    \/ TimerExpire
    \/ TimerDelete
    \/ TimerClear
    \/ RecordSpoiler
    \/ Tick
    \/ Elapse

Spec == Init /\ [][Next]_vars

\* The same program with the scheduling made explicit: handlers run one at
\* a time, every goroutine that can take a step eventually takes it, and time
\* passes until a sleeping cleanup goroutine wakes.
LiveReceive == ReceiveOf(Reactions, LiveEvents, 1)

LiveNext ==
    \/ LiveReceive
    \/ EditRemoved
    \/ StoreRemoved
    \/ EditActive
    \/ Send
    \/ StoreActive
    \/ TimerExpire
    \/ TimerDelete
    \/ TimerClear
    \/ RecordSpoiler
    \/ Elapse

Fairness ==
    /\ WF_vars(EditRemoved)
    /\ WF_vars(StoreRemoved)
    /\ WF_vars(EditActive)
    /\ WF_vars(Send)
    /\ WF_vars(StoreActive)
    /\ WF_vars(TimerExpire)
    /\ WF_vars(TimerDelete)
    /\ WF_vars(TimerClear)
    /\ WF_vars(Elapse)

LiveSpec == Init /\ [][LiveNext]_vars /\ Fairness

\* The same program, with the last completed run recorded in prev.
SeqInit == InitWith(PrevOn)

SeqSpec == SeqInit /\ [][Next]_vars

\* The same program on one schedule of reaction updates in a group chat: the
\* last update but one is delivered while the handler of the update before it
\* is still running, every other update is delivered when no handler runs.
GroupReactions == {r \in Reactions : r.Chat = GroupChat}

RaceReceive ==
    /\ delivered = RaceEvents - 2 => handlers # EmptyBag
    /\ ReceiveOf(GroupReactions, RaceEvents,
                 IF delivered = RaceEvents - 2 THEN 2 ELSE 1)

RaceNext ==
    \/ RaceReceive
    \/ EditRemoved
    \/ StoreRemoved
    \/ EditActive
    \/ Send
    \/ StoreActive
    \/ TimerExpire
    \/ TimerDelete
    \/ TimerClear
    \/ RecordSpoiler
    \/ Elapse

RaceSpec == Init /\ [][RaceNext]_vars

\* The same program, one handler at a time, on reaction sets of every kind
\* the Bot API knows (emoji, custom_emoji, paid), with repeats and in any
\* order.
Party == [Type |-> "emoji", Emoji |-> "U+1F389"]
Paid  == [Type |-> "paid",  Emoji |-> ""]

ReactionKinds == {Thumb, Party, Custom, Paid}

RenderLists ==
    UNION {[1..n -> ReactionKinds] : n \in 0..RenderMaxLen}

RenderReactions ==
    {r \in [Chat : {GroupChat}, MessageID : MessageIDs,
            OldReaction : RenderLists, NewReaction : RenderLists,
            User : {Some(Alice)}, ActorChat : {Nil}] :
        r.OldReaction # r.NewReaction}

RenderReceive == ReceiveOf(RenderReactions, RenderEvents, 1)

RenderNext ==
    \/ RenderReceive
    \/ EditRemoved
    \/ StoreRemoved
    \/ EditActive
    \/ Send
    \/ StoreActive
    \/ TimerExpire
    \/ TimerDelete
    \/ TimerClear
    \/ RecordSpoiler
    \/ Elapse

RenderSpec == Init /\ [][RenderNext]_vars

\* The same program, one handler at a time, on updates from every kind of
\* actor: a user with or without a username and with or without a first
\* name, a chat with or without a title, both, or neither.
Handles      == {"", "alice"}
DisplayNames == {"", "Alice"}
Titles       == {"", "News"}

ActorUsers ==
    {Nil} \cup {Some(u) : u \in [Username : Handles, FirstName : DisplayNames]}

ActorChats == {Nil} \cup {Some(c) : c \in [Title : Titles]}

NameReactions ==
    {r \in [Chat : {GroupChat}, MessageID : MessageIDs,
            OldReaction : ReactionLists, NewReaction : ReactionLists,
            User : ActorUsers, ActorChat : ActorChats] :
        r.OldReaction # r.NewReaction}

NameReceive == ReceiveOf(NameReactions, NameEvents, 1)

NameNext ==
    \/ NameReceive
    \/ EditRemoved
    \/ StoreRemoved
    \/ EditActive
    \/ Send
    \/ StoreActive
    \/ TimerExpire
    \/ TimerDelete
    \/ TimerClear
    \/ RecordSpoiler
    \/ Elapse

NameSpec == Init /\ [][NameNext]_vars

\* The same program, one handler at a time, with a transport whose
\* editMessageText and deleteMessage fail only when the message they aim at
\* no longer exists.
FailedOnlyIfGone(owner, call) ==
    call.ok \/ ~MessageExists(dms, owner, call.messageID)

StrictReceive == ReceiveOf(GroupReactions, StrictEvents, 1)

StrictEditRemoved ==
    /\ EditRemoved
    /\ FailedOnlyIfGone(last'.h[1].metadata[1].UserID, last'.h[1].calls[1])

StrictEditActive ==
    /\ EditActive
    /\ FailedOnlyIfGone(last'.h[1].metadata[1].UserID, last'.h[1].calls[1])

StrictTimerDelete ==
    /\ TimerDelete
    /\ FailedOnlyIfGone(last'.t[1].userID, last'.t[1].calls[1])

StrictNext ==
    \/ StrictReceive
    \/ StrictEditRemoved
    \/ StoreRemoved
    \/ StrictEditActive
    \/ Send
    \/ StoreActive
    \/ TimerExpire
    \/ StrictTimerDelete
    \/ TimerClear
    \/ RecordSpoiler
    \/ Elapse

StrictSpec == Init /\ [][StrictNext]_vars

\* The same program with process restarts: the process ends at any point,
\* taking every goroutine with it, and the next process opens the same file.
RestartNext ==
    \/ Next
    \/ Restart

RestartSpec == Init /\ [][RestartNext]_vars

----------------------------------------------------------------------------
(* Vocabulary of the properties *)

LastH == last.h[1]
LastT == last.t[1]

\* The step just taken ended a handler run.
Completed == last.h # Nil /\ LastH.pc = "done"

\* The run passed the early returns: group chat and a registry record.
Tracked(h) == h.metadata # Nil

CountCalls(calls, api) ==
    Cardinality({i \in 1..Len(calls) : calls[i].api = api})

AllOk(h) == \A i \in 1..Len(h.calls) : h.calls[i].ok

TimerKey(t) == NotificationKey(t.userID, t.chatID, t.messageID)

\* The cleanup goroutine started last for a key.
LatestArmed(key) ==
    LET ns == {n \in 1..Len(armed) : armed[n] = key}
    IN  CHOOSE n \in ns : \A m \in ns : m <= n

ActiveState(id) ==
    [NotificationMsgID |-> id, RemovedAt |-> 0, RemovedEmojis |-> <<>>]

----------------------------------------------------------------------------
\* C1: a cleanup goroutine that at expiry finds no stored state, or a stored
\* removedAtEpoch different from its fence token, ends there: it issues no
\* deleteMessage, writes nothing, and store and messages are as before.
C1_StaleTimerTakesNoAction ==
    [][ (/\ last'.op = "TimerExpire"
         /\ \/ last'.t[1].currentMeta = Nil
            \/ last'.t[1].currentMeta[1].RemovedAt # last'.t[1].fence)
        => /\ last'.t[1].pc = "done"
           /\ last'.t[1].calls = <<>>
           /\ \A t \in timers' : t.seq # last'.t[1].seq
           /\ store' = store
           /\ dms' = dms ]_vars

\* React, full removal, react again, then the first timer fires.
C1_Witness ==
    /\ last.op = "TimerExpire"
    /\ LastT.pc = "done"
    /\ LastT.currentMeta # Nil
    /\ LastT.currentMeta[1].RemovedAt = 0
    /\ LastT.currentMeta[1].NotificationMsgID # 0
    /\ LastT.fence # 0
    /\ MessageExists(dms, LastT.userID, LastT.currentMeta[1].NotificationMsgID)
    /\ ~dms[LastT.currentMeta[1].NotificationMsgID].text.removed

\* C2: a cleanup goroutine never deletes a message that shows live content:
\* no successful deleteMessage hits a message whose text is an active
\* reaction summary and which the stored state names as the active
\* notification of the key.
C2_TimerNeverDeletesLiveContent ==
    [][ (last'.op = "TimerDelete" /\ last'.t[1].calls[1].ok)
        => LET t == last'.t[1]
               id == t.calls[1].messageID
               cur == getNotificationMetadata(store, t.userID, t.chatID,
                                              t.messageID)
           IN  ~ (/\ ~dms[id].text.removed
                  /\ cur = Some(ActiveState(id))) ]_vars

\* C3: a cleanup goroutine whose fence token matches at expiry is the one
\* started last for its key.
C3_OnlyLatestTimerMatches ==
    (last.op = "TimerExpire" /\ LastT.pc = "delete")
        => LastT.seq = LatestArmed(TimerKey(LastT))

----------------------------------------------------------------------------
\* A non-empty reaction on a tracked message with no prior notification.
C4_Case ==
    /\ Completed
    /\ Tracked(LastH)
    /\ ~IsFullRemoval(LastH.reaction)
    /\ ~HasNotification(LastH.notificationMeta)

\* C4 as written: no edit, one sendMessage, and the stored state names the
\* message that send returned, with removedAtEpoch 0.
C4_AsWritten ==
    C4_Case
        => /\ CountCalls(LastH.calls, "edit") = 0
           /\ CountCalls(LastH.calls, "send") = 1
           /\ LastH.calls[1].messageID # 0
           /\ StoredFor(LastH, store) = Some(ActiveState(LastH.calls[1].messageID))

\* C4 amended: no edit and exactly one sendMessage; when the send succeeds the
\* stored state names the returned message with removedAtEpoch 0, and when it
\* fails the handler returns without writing.
C4_FirstNotification ==
    [][ C4_Case'
        => LET h == last'.h[1]
           IN  /\ Len(h.calls) = 1
               /\ h.calls[1].api = "send"
               /\ IF h.calls[1].ok
                  THEN /\ h.calls[1].messageID # 0
                       /\ last'.op = "StoreActive"
                       /\ StoredFor(h, store') =
                              Some(ActiveState(h.calls[1].messageID))
                  ELSE /\ last'.op = "Send"
                       /\ store' = store ]_vars

C4_Witness ==
    /\ C4_Case
    /\ last.op = "StoreActive"
    /\ LastH.calls[1].ok
    /\ MessageExists(dms, LastH.metadata[1].UserID, LastH.calls[1].messageID)

----------------------------------------------------------------------------
\* A non-empty reaction on a tracked message with a prior notification.
EditCase(ok) ==
    /\ Completed
    /\ Tracked(LastH)
    /\ ~IsFullRemoval(LastH.reaction)
    /\ HasNotification(LastH.notificationMeta)
    /\ LastH.calls # <<>>
    /\ LastH.calls[1].ok = ok

\* C5: when the edit succeeds nothing is sent, and the stored state keeps
\* the notificationMessageID the handler read, with removedAtEpoch 0.
C5_EditKeepsMessage ==
    EditCase(TRUE)
        => /\ LastH.calls =
                <<Call("edit", LastH.notificationMeta[1].NotificationMsgID, TRUE)>>
           /\ last.op = "StoreActive"
           /\ StoredFor(LastH, store) =
                Some(ActiveState(LastH.notificationMeta[1].NotificationMsgID))

\* The prior state was a removed state.
C5_Witness ==
    /\ EditCase(TRUE)
    /\ LastH.notificationMeta[1].RemovedAt # 0
    /\ LastH.notificationMeta[1].RemovedEmojis # <<>>

\* C6 as written: when the edit fails, one new message is sent and the
\* stored state names it, with removedAtEpoch 0.
C6_AsWritten ==
    EditCase(FALSE)
        => /\ CountCalls(LastH.calls, "send") = 1
           /\ LastH.calls[2].messageID # 0
           /\ StoredFor(LastH, store) = Some(ActiveState(LastH.calls[2].messageID))

\* C6 amended: when the edit fails, exactly one sendMessage follows; when that
\* send succeeds the stored state names the new message with removedAtEpoch 0,
\* and when it fails the handler returns without writing.
C6_EditFailureFallsBackToSend ==
    [][ EditCase(FALSE)'
        => LET h == last'.h[1]
           IN  /\ Len(h.calls) = 2
               /\ h.calls[1].api = "edit"
               /\ h.calls[2].api = "send"
               /\ IF h.calls[2].ok
                  THEN /\ h.calls[2].messageID # 0
                       /\ h.calls[2].messageID #
                              h.notificationMeta[1].NotificationMsgID
                       /\ last'.op = "StoreActive"
                       /\ StoredFor(h, store') =
                              Some(ActiveState(h.calls[2].messageID))
                  ELSE /\ last'.op = "Send"
                       /\ store' = store ]_vars

C6_Witness ==
    /\ EditCase(FALSE)
    /\ last.op = "StoreActive"
    /\ LastH.calls[2].ok
    /\ MessageExists(dms, LastH.metadata[1].UserID, LastH.calls[2].messageID)

----------------------------------------------------------------------------
----------------------------------------------------------------------------
\* C10: a reaction in a private chat, or on a message without a registry
\* record, returns at once: no Bot API call, no store write, no cleanup
\* goroutine, nothing left in flight.
C10_IgnoredEventsHaveNoEffect ==
    [][ (/\ last'.op = "Receive"
         /\ \/ last'.h[1].reaction.Chat.Type = "private"
            \/ getMessageMetadata(store, last'.h[1].reaction.Chat.ID,
                                  last'.h[1].reaction.MessageID) = Nil)
        => /\ last'.h[1].pc = "done"
           /\ last'.h[1].calls = <<>>
           /\ UNCHANGED <<store, dms, handlers, timers, armed>> ]_vars

\* A reaction in a private chat on a spoiler message the registry knows.
C10_Witness ==
    /\ last.op = "Receive"
    /\ LastH.reaction.Chat.Type = "private"
    /\ ~IsFullRemoval(LastH.reaction)
    /\ getMessageMetadata(store, LastH.reaction.Chat.ID,
                          LastH.reaction.MessageID) # Nil

----------------------------------------------------------------------------
(* C9, under SeqSpec: prev.repeat and prev.run are two runs on the same     *)
(* update, the second started after the first ended, with no other handler, *)
(* no cleanup step and no registry write between them.                      *)

Repeated == prev.repeat # Nil

FirstRun  == prev.repeat[1]
SecondRun == prev.run[1]

\* The run went as far as writing a removed state.
WroteRemoval(run) == IsFullRemoval(run.h.reaction) /\ run.h.calls # <<>>

----------------------------------------------------------------------------
\* C8, under LiveSpec: once a full removal on a notification has been stored
\* and no handler is running, then, unless a further reaction update is
\* delivered, a cleanup goroutine eventually calls deleteMessage on the
\* notification message the stored state names. (The claim asks for more:
\* that the message is deleted and the state reset.)
C8_RemovalIsEventuallyCleanedUp ==
    \A id \in 1..LiveEvents :
        (/\ last.op = "StoreRemoved"
         /\ handlers = EmptyBag
         /\ StoredFor(LastH, store) # Nil
         /\ StoredFor(LastH, store)[1].NotificationMsgID = id)
        ~> (\/ last.op = "Receive"
            \/ \E t \in timers :
                  /\ t.pc = "clear"
                  /\ t.calls[1].messageID = id)

----------------------------------------------------------------------------
(* Vocabulary of the store-wide properties *)

\* No handler is running and no cleanup goroutine is past its sleep.
Quiescent == handlers = EmptyBag /\ \A t \in timers : t.pc = "sleep"

IsNotificationKey(key) == Len(key) = 4
IsMetadataKey(key)     == Len(key) = 2

NotificationKeys(s) == {key \in DOMAIN s : IsNotificationKey(key)}
RegistryKeys(s)     == {key \in DOMAIN s : IsMetadataKey(key)}

\* The stored states that reference a notification message.
Referencing(s) ==
    {key \in NotificationKeys(s) :
        UnmarshalNotification(s[key]).NotificationMsgID # 0}

\* C11: whenever no handler and no cleanup goroutine is mid-execution, every
\* stored state that references a notification message agrees with what that
\* message shows: removedAtEpoch # 0 exactly when the message exists and shows
\* the "reacted ... and removed" text, removedAtEpoch = 0 exactly when it
\* exists and shows an active reaction summary.
C11_DisplayMatchesState ==
    Quiescent =>
        \A key \in Referencing(store) :
            LET m == UnmarshalNotification(store[key])
                id == m.NotificationMsgID
            IN  /\ MessageExists(dms, key[2], id)
                /\ dms[id].text.removed = (m.RemovedAt # 0)

----------------------------------------------------------------------------
----------------------------------------------------------------------------
\* C13, under RaceSpec: when the handlers of two updates for a key run
\* concurrently, each store write leaves exactly the state its writer built
\* (a full overwrite, so the write landing last decides the stored state);
\* and when the update after them has been handled alone and its edit
\* succeeded, the stored state references a message that exists and shows
\* that update's reaction set.
C13_LastWriteWinsThenCorrected ==
    [][ /\ (/\ last'.op \in {"StoreActive", "StoreRemoved"}
            /\ delivered = RaceEvents - 1)
           => LET h == last'.h[1]
              IN  StoredFor(h, store') =
                     IF last'.op = "StoreActive"
                     THEN Some(ActiveState(h.newMessageID))
                     ELSE Some([NotificationMsgID |-> h.calls[1].messageID,
                                RemovedAt |-> clock,
                                RemovedEmojis |->
                                    ExtractEmojis(h.reaction.OldReaction)])
        /\ (/\ last'.op = "StoreActive"
            /\ delivered = RaceEvents
            /\ last'.h[1].calls = <<Call("edit", last'.h[1].newMessageID, TRUE)>>)
           => LET h == last'.h[1]
                  stored == StoredFor(h, store')
              IN  /\ stored # Nil
                  /\ MessageExists(dms', h.metadata[1].UserID,
                                   stored[1].NotificationMsgID)
                  /\ dms'[stored[1].NotificationMsgID].text =
                       [removed |-> FALSE, name |-> ReactorName(h.reaction),
                        emojiStr |-> Join(ExtractEmojis(h.reaction.NewReaction),
                                          " ")] ]_vars

----------------------------------------------------------------------------
\* C14: a full removal on a tracked message whose stored state is absent or
\* has notificationMessageID 0 returns at once: no edit, send or delete call,
\* no store write, no cleanup goroutine, nothing left in flight.
C14_RemovalWithoutNotificationIsNoOp ==
    [][ (/\ last'.op = "Receive"
         /\ last'.h[1].reaction.Chat.Type # "private"
         /\ last'.h[1].reaction.NewReaction = <<>>
         /\ getMessageMetadata(store, last'.h[1].reaction.Chat.ID,
                               last'.h[1].reaction.MessageID) # Nil
         /\ LET owner == getMessageMetadata(store, last'.h[1].reaction.Chat.ID,
                              last'.h[1].reaction.MessageID)[1].UserID
                 cur == getNotificationMetadata(store, owner,
                              last'.h[1].reaction.Chat.ID,
                              last'.h[1].reaction.MessageID)
             IN  cur = Nil \/ cur[1].NotificationMsgID = 0)
        => /\ last'.h[1].pc = "done"
           /\ last'.h[1].calls = <<>>
           /\ UNCHANGED <<store, dms, handlers, timers, armed>> ]_vars

\* A full removal that finds the state a cleanup goroutine has reset.
C14_Witness ==
    /\ last.op = "Receive"
    /\ Tracked(LastH)
    /\ LastH.reaction.NewReaction = <<>>
    /\ LastH.notificationMeta = Some(EmptyNotification)
    /\ LastH.pc = "done"
    /\ \E id \in 1..Len(dms) : ~dms[id].exists

----------------------------------------------------------------------------
\* C15: a registry record, once written, is returned unchanged by every later
\* lookup: no step of a reaction handler or of a cleanup goroutine writes,
\* overwrites or removes one.  A lookup turns from absent to present only by
\* a record call, and then returns the owner recorded; recording the same
\* owner again would leave the store as it is.
C15_RegistryRecordsAreStable ==
    [][ /\ \A key \in RegistryKeys(store) :
              key \in DOMAIN store' /\ store'[key] = store[key]
        /\ \A chat \in Chats, m \in MessageIDs :
              LET before == getMessageMetadata(store, chat.ID, m)
                  after  == getMessageMetadata(store', chat.ID, m)
              IN  /\ before # Nil => after = before
                  /\ (before = Nil /\ after # Nil)
                       => /\ last'.op = "RecordSpoiler"
                          /\ \E u \in Users :
                                /\ store' = storeMessageMetadata(store, chat.ID,
                                                                 m, u)
                                /\ after = Some([UserID |-> u,
                                                 ChatID |-> chat.ID,
                                                 MessageID |-> m])
                  /\ after # Nil
                       => storeMessageMetadata(store', chat.ID, m,
                                               after[1].UserID) = store' ]_vars

\* A record that has been through a notification, a removal and a cleanup of
\* its key, next to a pair that was never recorded.
C15_Witness ==
    /\ last.op = "TimerClear"
    /\ getMessageMetadata(store, LastT.chatID, LastT.messageID) =
          Some([UserID |-> LastT.userID, ChatID |-> LastT.chatID,
                MessageID |-> LastT.messageID])
    /\ \E chat \in Chats, m \in MessageIDs :
          getMessageMetadata(store, chat.ID, m) = Nil

----------------------------------------------------------------------------
(* C16, under RenderSpec *)

\* The rendering the claim describes: one entry per reaction, in the order
\* reported; the glyph for a standard emoji, the placeholder for any other
\* kind.
Labels(rs) ==
    [i \in 1..Len(rs) |->
        IF rs[i].Type = "emoji" THEN rs[i].Emoji ELSE "[custom]"]

\* C16: the text of every notification that is sent or edited shows the
\* labels of the update's reaction set joined by single spaces (the new set
\* in an active notification, the old set in a "removed" one), and the
\* removedEmojis stored on a removal are the labels of the old set.
C16_RenderingIsOnePerReaction ==
    [][ /\ (last'.op \in {"Send", "EditActive"}
            /\ last'.h[1].calls[Len(last'.h[1].calls)].ok)
           => LET h == last'.h[1]
                  id == h.calls[Len(h.calls)].messageID
              IN  dms'[id].text =
                     [removed |-> FALSE, name |-> ReactorName(h.reaction),
                      emojiStr |-> Join(Labels(h.reaction.NewReaction), " ")]
        /\ (last'.op = "EditRemoved" /\ last'.h[1].calls[1].ok)
           => LET h == last'.h[1]
              IN  dms'[h.calls[1].messageID].text =
                     [removed |-> TRUE, name |-> ReactorName(h.reaction),
                      emojiStr |-> Join(Labels(h.reaction.OldReaction), " ")]
        /\ last'.op = "StoreRemoved"
           => StoredFor(last'.h[1], store')[1].RemovedEmojis =
                 Labels(last'.h[1].reaction.OldReaction) ]_vars

----------------------------------------------------------------------------
(* C17, under NameSpec *)

HandleAvailable(r)      == r.User # Nil /\ r.User[1].Username # ""
DisplayNameAvailable(r) == r.User # Nil /\ r.User[1].FirstName # ""
TitleAvailable(r)       == r.ActorChat # Nil /\ r.ActorChat[1].Title # ""

\* The name the claim describes.
NameByPrecedence(r) ==
    IF HandleAvailable(r) THEN "@" \o r.User[1].Username
    ELSE IF DisplayNameAvailable(r) THEN r.User[1].FirstName
    ELSE IF TitleAvailable(r) THEN r.ActorChat[1].Title
    ELSE "Anonymous"

\* C17: the actor name in every notification text that is sent or edited is
\* the user's handle if there is one, otherwise the user's display name,
\* otherwise the actor chat's title, otherwise "Anonymous"; and it is
\* "Anonymous" exactly when none of the three is available.
C17_ActorNamePrecedence ==
    [][ (/\ last'.op \in {"Send", "EditActive", "EditRemoved"}
         /\ last'.h[1].calls[Len(last'.h[1].calls)].ok)
        => LET h == last'.h[1]
               id == h.calls[Len(h.calls)].messageID
               shown == dms'[id].text.name
           IN  /\ shown = NameByPrecedence(h.reaction)
               /\ shown = "Anonymous"
                    <=> ~ (\/ HandleAvailable(h.reaction)
                           \/ DisplayNameAvailable(h.reaction)
                           \/ TitleAvailable(h.reaction)) ]_vars

----------------------------------------------------------------------------
\* C18: a cleanup goroutine whose fence token matched calls deleteMessage
\* once and, whether that call succeeds or fails, goes on to reset the stored
\* state of its key to the empty value: a failed delete changes nothing and
\* is not repeated, and after the reset no stored state references the
\* message the delete was aimed at.
C18_ResetFollowsDeleteEitherWay ==
    [][ /\ last'.op = "TimerDelete"
           => LET t == last'.t[1]
              IN  /\ t.pc = "clear"
                  /\ t \in timers'
                  /\ Len(t.calls) = 1
                  /\ t.calls[1].api = "delete"
                  /\ t.calls[1].messageID =
                         t.currentMeta[1].NotificationMsgID
                  /\ store' = store
                  /\ ~t.calls[1].ok => dms' = dms
        /\ last'.op = "TimerClear"
           => LET t == last'.t[1]
              IN  /\ t.fence # 0
                  /\ t.currentMeta[1].RemovedAt = t.fence
                  /\ Len(t.calls) = 1
                  /\ getNotificationMetadata(store', t.userID, t.chatID,
                                             t.messageID)
                         = Some([NotificationMsgID |-> 0, RemovedAt |-> 0,
                                 RemovedEmojis |-> <<>>])
                  /\ \A u \in timers' : u.seq # t.seq
                  /\ \A key \in Referencing(store') :
                        UnmarshalNotification(store'[key]).NotificationMsgID
                            # t.calls[1].messageID ]_vars

\* The delete failed, the message is still there, the state is reset.
C18_Witness ==
    /\ last.op = "TimerClear"
    /\ ~LastT.calls[1].ok
    /\ MessageExists(dms, LastT.userID, LastT.calls[1].messageID)
    /\ getNotificationMetadata(store, LastT.userID, LastT.chatID,
                               LastT.messageID) = Some(EmptyNotification)

----------------------------------------------------------------------------
\* C19: when the sendMessage of a non-empty reaction fails (with no live
\* notification, or after a failed edit), the handler ends there and has
\* written nothing: the store, the messages and the cleanup goroutines are as
\* before the call, so a removed state that a sleeping cleanup goroutine is
\* waiting on still carries that goroutine's fence token.
C19_FailedSendWritesNothing ==
    [][ (/\ last'.op = "Send"
         /\ ~last'.h[1].calls[Len(last'.h[1].calls)].ok)
        => LET h == last'.h[1]
           IN  /\ h.pc = "done"
               /\ h.reaction.NewReaction # <<>>
               /\ BagCardinality(handlers') = BagCardinality(handlers) - 1
               /\ UNCHANGED <<store, dms, timers, armed>>
               /\ StoredFor(h, store') = StoredFor(h, store)
               /\ \A t \in timers :
                     (/\ t.pc = "sleep"
                      /\ t.chatID = h.reaction.Chat.ID
                      /\ t.messageID = h.reaction.MessageID
                      /\ StoredFor(h, store) # Nil
                      /\ StoredFor(h, store)[1].RemovedAt = t.fence
                      /\ t.fence # 0)
                     => /\ t \in timers'
                        /\ StoredFor(h, store') # Nil
                        /\ StoredFor(h, store')[1].RemovedAt = t.fence ]_vars

\* During the grace window of a removal a new reaction's edit and send both
\* fail: the removed state and its cleanup goroutine are still in place.
C19_Witness ==
    /\ last.op = "Send"
    /\ Len(LastH.calls) = 2
    /\ ~LastH.calls[1].ok
    /\ ~LastH.calls[2].ok
    /\ LastH.notificationMeta[1].RemovedAt # 0
    /\ StoredFor(LastH, store) = LastH.notificationMeta
    /\ \E t \in timers :
          /\ t.pc = "sleep"
          /\ t.fence = LastH.notificationMeta[1].RemovedAt
          /\ dms[LastH.calls[1].messageID].text.removed

----------------------------------------------------------------------------
\* C20, under StrictSpec: at most one notification DM that was sent and not
\* deleted exists per key.  (Every owner of the model has one key: one
\* spoiler message in one group chat.)
C20_AtMostOneNotificationPerKey ==
    \A u \in Users :
        Cardinality({id \in 1..Len(dms) :
                        dms[id].owner = u /\ dms[id].exists}) <= 1

----------------------------------------------------------------------------
\* C21: whenever no handler and no cleanup goroutine is mid-execution, a
\* non-zero notificationMessageID in the store never names a DM that a
\* cleanup goroutine has deleted.  (deleteMessage is called by cleanup
\* goroutines only, so a DM that no longer exists was deleted by one.)
C21_StoredIdNeverNamesDeletedDM ==
    Quiescent =>
        \A key \in Referencing(store) :
            LET id == UnmarshalNotification(store[key]).NotificationMsgID
            IN  id \in 1..Len(dms) => dms[id].exists

====
